---- MODULE Spec2Model ----
(***************************************************************************)
(* Model of candle-core/src/mtensor.rs: MTensor, a wrapper around          *)
(* Result<Tensor> with add/sub/mul/div operators that propagate errors     *)
(* (macro ttry!), the Try / FromResidual implementations and unwrap.       *)
(*                                                                         *)
(* A client program is modelled: it owns two MTensor variables (slots),    *)
(* builds MTensors with the From impls, applies the operators in every     *)
(* operand pairing and by-value/by-reference form, applies `?` and         *)
(* unwrap.  `last` records the most recent call (operands as they were     *)
(* before the call, and its outcome) until the program binds its result    *)
(* to a variable or drops it; `lastG` and `slotG` are history variables    *)
(* about the values.                                                       *)
(***************************************************************************)
EXTENDS Integers, Sequences, FiniteSets, TLC

\* ---- bounds of the model ----
MaxDim == 2     \* tensors have 1..MaxDim elements
MaxVal == 1     \* elements and scalars range over 0..MaxVal
MaxWrap == 1    \* input errors carry 0..MaxWrap backtrace wrappers

Slots == {"a", "b"}
Ops == {"add", "sub", "mul", "div"}
ErrorKinds == {"Msg", "ShapeMismatch"}

Null == [tag |-> "None"]

\* ---- the external Error type ----
\* An Error is a base kind under a stack of WithBacktrace wrappers, the
\* outermost first: Error::WithBacktrace { inner, backtrace }.
WithBacktrace(inner, backtrace) ==
    [kind |-> inner.kind, bts |-> <<backtrace>> \o inner.bts]

IsWithBacktrace(e) == e.bts # <<>>

ErrInner(e) == [kind |-> e.kind, bts |-> Tail(e.bts)]

ErrBacktrace(e) == Head(e.bts)

BareError(k) == [kind |-> k, bts |-> <<>>]

\* Error::bt: attaches a trace to an error that has none; an error that
\* already carries its trace is handed back with that trace preserved.
bt(e, site) == IF IsWithBacktrace(e) THEN e ELSE WithBacktrace(e, site)

\* ---- the external Tensor type ----
Elems == 0..MaxVal

Tensor(n, v) == [shape |-> n, data |-> [i \in 1..n |-> v]]

InputTensors == {Tensor(n, v) : n \in 1..MaxDim, v \in Elems}

\* the plain Tensor operands of the operators: one of each shape
OperandTensors == {Tensor(n, MaxVal) : n \in 1..MaxDim}

Scalars == Elems

ElemOp(op, x, y) ==
    CASE op = "add" -> (x + y) % (MaxVal + 1)
      [] op = "sub" -> (x - y) % (MaxVal + 1)
      [] op = "mul" -> (x * y) % (MaxVal + 1)
      [] op = "div" -> IF y = 0 THEN MaxVal ELSE x \div y

Ok(t) == [tag |-> "Ok", v |-> t]

Err(e) == [tag |-> "Err", e |-> e]

\* Tensor op Tensor: elementwise on equal shapes, an error otherwise.
TensorOp(op, x, y) ==
    IF x.shape # y.shape
    THEN Err(bt(BareError("ShapeMismatch"), "lib"))
    ELSE Ok([shape |-> x.shape,
             data |-> [i \in 1..x.shape |-> ElemOp(op, x.data[i], y.data[i])]])

\* Tensor op f64
TensorScalarOp(op, x, s) ==
    Ok([shape |-> x.shape,
        data |-> [i \in 1..x.shape |-> ElemOp(op, x.data[i], s)]])

\* f64 op Tensor
ScalarTensorOp(op, s, y) ==
    Ok([shape |-> y.shape,
        data |-> [i \in 1..y.shape |-> ElemOp(op, s, y.data[i])]])

TensorClone(t) == [shape |-> t.shape, data |-> [i \in 1..t.shape |-> t.data[i]]]

\* ---- MTensor ----
MTensor(r) == [inner |-> r]

Moved == [moved |-> TRUE]

IsLive(x) == "inner" \in DOMAIN x

IsOk(m) == m.inner.tag = "Ok"

IsErr(m) == m.inner.tag = "Err"

\* variant: the conversion attaches a backtrace to the error it is given
MTensor_from_result_bt(value) ==
    IF value.tag = "Err" THEN MTensor(Err(bt(value.e, "from"))) ELSE MTensor(value)

\* impl From<Result<Tensor>> for MTensor
MTensor_from_result(value) == MTensor(value)

\* impl From<Tensor> for MTensor
MTensor_from_tensor(value) == MTensor(Ok(value))

\* outcomes of a call
Ret(m, inv) == [tag |-> "Ret", m |-> m, invoked |-> inv]

Panic(msg) == [tag |-> "Panic", msg |-> msg, invoked |-> FALSE]

Val(x) == [tag |-> "Val", x |-> x, invoked |-> FALSE]

\* variant: a default tensor instead of the panic
MTensor_unwrap_or_default(self) ==
    IF self.inner.tag = "Ok"
    THEN Val(TensorClone(self.inner.v))
    ELSE Val(Tensor(1, 0))

\* MTensor::unwrap
MTensor_unwrap(self) ==
    IF self.inner.tag = "Ok"
    THEN Val(TensorClone(self.inner.v))
    ELSE Panic("unwrap")

\* macro ttry!: the contained tensor, or an early return of the enclosing
\* closure with a clone of the error
ttry(v) ==
    IF v.inner.tag = "Ok"
    THEN Val(v.inner.v)
    ELSE LET e == v.inner.e IN
         IF ~IsWithBacktrace(e)
         THEN Panic("unreachable")
         ELSE LET clone == WithBacktrace(ErrInner(e), ErrBacktrace(e))
              IN Ret(MTensor_from_result(Err(bt(clone, "ttry"))), FALSE)

\* Try::from_output
Try_from_output(output) == MTensor_from_tensor(output)

\* Try::branch
Try_branch(self) ==
    IF self.inner.tag = "Ok"
    THEN [tag |-> "Continue", v |-> self.inner.v]
    ELSE [tag |-> "Break", r |-> Err(self.inner.e)]

\* variant: the residual's error gets a new backtrace
FromResidual_from_residual_bt(residual) ==
    MTensor_from_result(Err(WithBacktrace(residual.e, "residual")))

\* FromResidual::from_residual
FromResidual_from_residual(residual) == MTensor_from_result(Err(residual.e))

\* the `?` operator on an MTensor inside a function returning MTensor
Question(m) ==
    LET cf == Try_branch(m) IN
    IF cf.tag = "Continue"
    THEN Val(cf.v)
    ELSE Ret(FromResidual_from_residual(cf.r), FALSE)

\* ---- the operator closures handed to bin_trait! ----
\* the underlying operator's result, wrapped
Forward(r) == Ret(MTensor_from_result(r), TRUE)

\* variant: the operands reach the underlying operator in the other order
Op_MTensor_MTensor_swapped(op, a, b) ==
    LET x == ttry(a) IN
    IF x.tag # "Val" THEN x
    ELSE LET y == ttry(b) IN
         IF y.tag # "Val" THEN y
         ELSE Forward(TensorOp(op, y.x, x.x))

\* |a: &MTensor, b: &MTensor| ttry!(a) op ttry!(b)
Op_MTensor_MTensor(op, a, b) ==
    LET x == ttry(a) IN
    IF x.tag # "Val" THEN x
    ELSE LET y == ttry(b) IN
         IF y.tag # "Val" THEN y
         ELSE Forward(TensorOp(op, x.x, y.x))

\* |a: &MTensor, b: &f64| ttry!(a) op *b
Op_MTensor_f64(op, a, b) ==
    LET x == ttry(a) IN
    IF x.tag # "Val" THEN x ELSE Forward(TensorScalarOp(op, x.x, b))

\* variant: tensor op scalar where scalar op tensor is meant
Op_f64_MTensor_swapped(op, a, b) ==
    LET y == ttry(b) IN
    IF y.tag # "Val" THEN y ELSE Forward(TensorScalarOp(op, y.x, a))

\* |a: &f64, b: &MTensor| *a op ttry!(b)
Op_f64_MTensor(op, a, b) ==
    LET y == ttry(b) IN
    IF y.tag # "Val" THEN y ELSE Forward(ScalarTensorOp(op, a, y.x))

\* |a: &Tensor, b: &MTensor| a op ttry!(b)
Op_Tensor_MTensor(op, a, b) ==
    LET y == ttry(b) IN
    IF y.tag # "Val" THEN y ELSE Forward(TensorOp(op, a, y.x))

\* |a: &MTensor, b: &Tensor| ttry!(a) op b
Op_MTensor_Tensor(op, a, b) ==
    LET x == ttry(a) IN
    IF x.tag # "Val" THEN x ELSE Forward(TensorOp(op, x.x, b))

\* variant: the error is taken out of a failed operand instead of cloned
AfterCall_take(operand, byRef) ==
    IF byRef /\ IsOk(operand) THEN operand ELSE Moved

\* bin_trait!: what is left of an operand after the call.  The closure only
\* borrows; an operand passed by value is dropped when the method returns.
AfterCall(operand, byRef) == IF byRef THEN operand ELSE Moved

\* ---- the client program ----
VARIABLES slots, slotG, last, lastG

vars == <<slots, slotG, last, lastG>>

InputErrors == {[kind |-> "Msg", bts |-> [i \in 1..n |-> "user"]] : n \in 0..MaxWrap}

InputResults == {Ok(t) : t \in InputTensors} \cup {Err(e) : e \in InputErrors}

\* history of a value: the error it held when it first was a Failure
\* (origin); the tensor the same expression gives on the Tensor type itself
\* (shadow, Null when it gives none); whether an operator returned it
\* (derived)
NoG == [origin |-> Null, shadow |-> Null, derived |-> FALSE]

TensorG(t) == [origin |-> Null, shadow |-> t, derived |-> FALSE]

ErrorG(e) == [origin |-> e, shadow |-> Null, derived |-> FALSE]

\* operands of a call, as they are before it
MOperand(s, byRef) ==
    [tag |-> "MTensor", m |-> slots[s], slot |-> s, ref |-> byRef, g |-> slotG[s]]

\* (bin_trait! hands the closure a reference to a Tensor or f64 operand
\* whether it came by value or by reference)
TOperand(t) == [tag |-> "Tensor", t |-> t, g |-> TensorG(t)]

FOperand(x) == [tag |-> "f64", x |-> x, g |-> NoG]

NoCall == [kind |-> "init", op |-> "-", lhs |-> Null, rhs |-> Null, arg |-> Null, out |-> Null]

Call(kind, arg, out) ==
    [kind |-> kind, op |-> "-", lhs |-> Null, rhs |-> Null, arg |-> arg, out |-> out]

OpCall(op, lhs, rhs, out) ==
    [kind |-> "op", op |-> op, lhs |-> lhs, rhs |-> rhs, arg |-> Null, out |-> out]

\* the program is between two statements: no result is pending
Idle == last.kind \in {"init", "idle"}

Init ==
    /\ slots = [s \in Slots |-> Moved]
    /\ slotG = [s \in Slots |-> NoG]
    /\ last = NoCall
    /\ lastG = NoG

\* the same operator applied to the Tensor / f64 values directly
Direct(op, lhs, rhs) ==
    IF lhs.tag = "f64" THEN
        IF rhs.g.shadow = Null THEN Null
        ELSE ScalarTensorOp(op, lhs.x, rhs.g.shadow)
    ELSE IF rhs.tag = "f64" THEN
        IF lhs.g.shadow = Null THEN Null
        ELSE TensorScalarOp(op, lhs.g.shadow, rhs.x)
    ELSE IF lhs.g.shadow = Null \/ rhs.g.shadow = Null THEN Null
         ELSE TensorOp(op, lhs.g.shadow, rhs.g.shadow)

\* the MTensor operand whose error an operator hands on
FirstFailure(lhs, rhs) ==
    IF lhs.tag = "MTensor" /\ IsErr(lhs.m) THEN lhs ELSE rhs

OpG(op, lhs, rhs, out) ==
    LET d == Direct(op, lhs, rhs) IN
    [origin |-> IF out.tag # "Ret" \/ IsOk(out.m) THEN Null
                ELSE IF out.invoked THEN out.m.inner.e
                ELSE FirstFailure(lhs, rhs).g.origin,
     shadow |-> IF d # Null /\ d.tag = "Ok" THEN d.v ELSE Null,
     derived |-> TRUE]

\* let m: MTensor = t.into()
FromTensor(t) ==
    /\ Idle
    /\ last' = Call("from_tensor", t, Ret(MTensor_from_tensor(t), FALSE))
    /\ lastG' = TensorG(t)
    /\ UNCHANGED <<slots, slotG>>

\* let m: MTensor = r.into()
FromResult(r) ==
    /\ Idle
    /\ last' = Call("from_result", r, Ret(MTensor_from_result(r), FALSE))
    /\ lastG' = IF r.tag = "Ok" THEN TensorG(r.v) ELSE ErrorG(r.e)
    /\ UNCHANGED <<slots, slotG>>

\* MTensor::from_output(t)
FromOutput(t) ==
    /\ Idle
    /\ last' = Call("from_output", t, Ret(Try_from_output(t), FALSE))
    /\ lastG' = TensorG(t)
    /\ UNCHANGED <<slots, slotG>>

\* let s = <the MTensor the last call returned>
Bind(s) ==
    /\ last.out.tag = "Ret"
    /\ slots' = [slots EXCEPT ![s] = last.out.m]
    /\ slotG' = [slotG EXCEPT ![s] = lastG]
    /\ last' = Call("idle", Null, Null)
    /\ lastG' = NoG

\* the result of the last call goes out of scope
Drop ==
    /\ last.out.tag \in {"Ret", "Val"}
    /\ last' = Call("idle", Null, Null)
    /\ lastG' = NoG
    /\ UNCHANGED <<slots, slotG>>

\* an operator call through one of the four impls bin_trait! generates
Apply(op, lhs, rhs, out) ==
    /\ Idle
    /\ last' = OpCall(op, lhs, rhs, out)
    /\ lastG' = OpG(op, lhs, rhs, out)
    /\ slots' = [s \in Slots |->
                   IF lhs.tag = "MTensor" /\ lhs.slot = s /\ rhs.tag = "MTensor" /\ rhs.slot = s
                   THEN AfterCall(slots[s], lhs.ref /\ rhs.ref)
                   ELSE IF lhs.tag = "MTensor" /\ lhs.slot = s THEN AfterCall(slots[s], lhs.ref)
                   ELSE IF rhs.tag = "MTensor" /\ rhs.slot = s THEN AfterCall(slots[s], rhs.ref)
                   ELSE slots[s]]
    /\ slotG' = [s \in Slots |-> IF IsLive(slots'[s]) THEN slotG[s] ELSE NoG]

\* MTensor op MTensor
OpMM(op, s1, s2, lref, rref) ==
    /\ IsLive(slots[s1]) /\ IsLive(slots[s2])
    /\ s1 = s2 => lref /\ rref
    /\ Apply(op, MOperand(s1, lref), MOperand(s2, rref),
             Op_MTensor_MTensor(op, slots[s1], slots[s2]))

\* MTensor op f64
OpMF(op, s, x, ref) ==
    /\ IsLive(slots[s])
    /\ Apply(op, MOperand(s, ref), FOperand(x), Op_MTensor_f64(op, slots[s], x))

\* f64 op MTensor
OpFM(op, x, s, ref) ==
    /\ IsLive(slots[s])
    /\ Apply(op, FOperand(x), MOperand(s, ref), Op_f64_MTensor(op, x, slots[s]))

\* Tensor op MTensor
OpTM(op, t, s, ref) ==
    /\ IsLive(slots[s])
    /\ Apply(op, TOperand(t), MOperand(s, ref), Op_Tensor_MTensor(op, t, slots[s]))

\* MTensor op Tensor
OpMT(op, s, t, ref) ==
    /\ IsLive(slots[s])
    /\ Apply(op, MOperand(s, ref), TOperand(t), Op_MTensor_Tensor(op, slots[s], t))

\* s.unwrap()
Unwrap(s) ==
    /\ Idle
    /\ IsLive(slots[s])
    /\ last' = [Call("unwrap", slots[s], MTensor_unwrap(slots[s])) EXCEPT
                  !.lhs = MOperand(s, FALSE)]
    /\ lastG' = NoG
    /\ slots' = [slots EXCEPT ![s] = Moved]
    /\ slotG' = [slotG EXCEPT ![s] = NoG]

\* s? in a function that returns MTensor
Try(s) ==
    /\ Idle
    /\ IsLive(slots[s])
    /\ last' = [Call("try", slots[s], Question(slots[s])) EXCEPT
                  !.lhs = MOperand(s, FALSE)]
    /\ lastG' = slotG[s]
    /\ slots' = [slots EXCEPT ![s] = Moved]
    /\ slotG' = [slotG EXCEPT ![s] = NoG]

Next ==
    \/ \E t \in InputTensors : FromTensor(t)
    \/ \E r \in InputResults : FromResult(r)
    \/ \E t \in InputTensors : FromOutput(t)
    \/ \E s \in Slots : Bind(s)
    \/ Drop
    \/ \E op \in Ops, s1, s2 \in Slots, lref, rref \in BOOLEAN : OpMM(op, s1, s2, lref, rref)
    \/ \E op \in Ops, s \in Slots, x \in Scalars, ref \in BOOLEAN : OpMF(op, s, x, ref)
    \/ \E op \in Ops, s \in Slots, x \in Scalars, ref \in BOOLEAN : OpFM(op, x, s, ref)
    \/ \E op \in Ops, s \in Slots, t \in OperandTensors, ref \in BOOLEAN : OpTM(op, t, s, ref)
    \/ \E op \in Ops, s \in Slots, t \in OperandTensors, ref \in BOOLEAN : OpMT(op, s, t, ref)
    \/ \E s \in Slots : Unwrap(s)
    \/ \E s \in Slots : Try(s)

Spec == Init /\ [][Next]_vars

\* ---- properties ----
Failing(o) == o.tag = "MTensor" /\ IsErr(o.m)

Succeeding(o) == o.tag = "MTensor" => IsOk(o.m)

\* the value an operand contains, when it is not a failed MTensor
Contained(o) ==
    CASE o.tag = "MTensor" -> o.m.inner.v
      [] o.tag = "Tensor" -> o.t
      [] o.tag = "f64" -> o.x

\* the underlying Tensor operator on the contained values, in operand order
Underlying(op, lhs, rhs) ==
    IF lhs.tag = "f64" THEN ScalarTensorOp(op, Contained(lhs), Contained(rhs))
    ELSE IF rhs.tag = "f64" THEN TensorScalarOp(op, Contained(lhs), Contained(rhs))
    ELSE TensorOp(op, Contained(lhs), Contained(rhs))

\* C1: an operator with an MTensor operand in Failure state, whatever error
\* it holds, returns an MTensor in Failure state and does not invoke the
\* underlying Tensor operator.
C1_FailureShortCircuits ==
    (last.kind = "op" /\ (Failing(last.lhs) \/ Failing(last.rhs)))
        => /\ last.out.tag = "Ret"
           /\ IsErr(last.out.m)
           /\ ~last.out.invoked

\* C2: f op x and x op f, for a Failure-state f and a Tensor or f64 x, carry
\* the error of f unchanged, and an error that went through k operators
\* still equals the original error.
C2_SameErrorCarried ==
    /\ (last.kind = "op" /\ Failing(last.lhs) /\ last.rhs.tag # "MTensor")
          => (last.out.tag = "Ret" /\ last.out.m.inner = Err(last.lhs.m.inner.e))
    /\ (last.kind = "op" /\ Failing(last.rhs) /\ last.lhs.tag # "MTensor")
          => (last.out.tag = "Ret" /\ last.out.m.inner = Err(last.rhs.m.inner.e))
    /\ (last.kind = "op" /\ last.out.tag = "Ret" /\ ~last.out.invoked)
          => last.out.m.inner = Err(lastG.origin)

\* C3: with every MTensor operand in Success state the result is the result
\* of the underlying Tensor operator on the contained values in the same
\* operand order, Success or the library's own Failure, and nothing else.
C3_ForwardsToTensorOp ==
    (last.kind = "op" /\ Succeeding(last.lhs) /\ Succeeding(last.rhs))
        => /\ last.out.tag = "Ret"
           /\ last.out.invoked
           /\ last.out.m = [inner |-> Underlying(last.op, last.lhs, last.rhs)]

C3_Witness ==
    /\ last.kind = "op"
    /\ last.lhs.tag = "MTensor" /\ IsOk(last.lhs.m)
    /\ last.rhs.tag = "MTensor" /\ IsOk(last.rhs.m)
    /\ last.out.tag = "Ret" /\ last.out.invoked
    /\ IsErr(last.out.m) /\ last.out.m.inner.e.kind = "ShapeMismatch"

\* C4: `?` on a Success-state MTensor continues with the contained Tensor;
\* on a Failure-state MTensor the enclosing function returns an MTensor in
\* Failure state with the original error unchanged, whatever the error;
\* from_output(t) followed by branch continues with t.
C4_TryPropagates ==
    /\ (last.kind = "try" /\ IsOk(last.arg))
          => last.out = [tag |-> "Val", x |-> last.arg.inner.v, invoked |-> FALSE]
    /\ (last.kind = "try" /\ IsErr(last.arg))
          => /\ last.out.tag = "Ret"
             /\ last.out.m = [inner |-> [tag |-> "Err", e |-> last.arg.inner.e]]
    /\ last.kind = "from_output"
          => Try_branch(last.out.m) = [tag |-> "Continue", v |-> last.arg]

C4_Witness ==
    /\ last.kind = "try"
    /\ IsErr(last.arg) /\ ~IsWithBacktrace(last.arg.inner.e)
    /\ last.out.tag = "Ret" /\ IsErr(last.out.m)

\* C5: an operator on two MTensors both in Failure state carries the error
\* of the left operand, in each by-value / by-reference form.
C5_LeftErrorWins ==
    (last.kind = "op" /\ Failing(last.lhs) /\ Failing(last.rhs))
        => /\ last.out.tag = "Ret"
           /\ last.out.m.inner = Err(last.lhs.m.inner.e)

\* C6: a chained expression over Success-state MTensors, Tensors and f64s
\* of compatible shape is a Success-state MTensor holding the tensor the
\* same operations give on the Tensor type, and unwrap returns that tensor.
C6_ChainEqualsDirect ==
    /\ (last.out.tag = "Ret" /\ lastG.shadow # Null)
          => last.out.m = [inner |-> [tag |-> "Ok", v |-> lastG.shadow]]
    /\ \A s \in Slots :
          (IsLive(slots[s]) /\ slotG[s].shadow # Null)
              => slots[s] = [inner |-> [tag |-> "Ok", v |-> slotG[s].shadow]]
    /\ (last.kind = "unwrap" /\ last.lhs.g.shadow # Null)
          => (last.out.tag = "Val" /\ last.out.x = last.lhs.g.shadow)

C6_Witness ==
    /\ last.kind = "op" /\ last.op = "add"
    /\ last.lhs.tag = "MTensor" /\ last.lhs.g.derived /\ ~last.lhs.ref
    /\ last.rhs.tag = "MTensor" /\ last.rhs.ref
    /\ lastG.shadow # Null
    /\ last.out.tag = "Ret" /\ IsOk(last.out.m)

\* C7: unwrap on a Success-state MTensor returns the tensor it holds, so
\* MTensor::from(t).unwrap() = t; unwrap on a Failure-state MTensor panics
\* and returns no tensor.
C7_Unwrap ==
    /\ (last.kind = "unwrap" /\ IsOk(last.arg))
          => (last.out.tag = "Val" /\ last.out.x = last.arg.inner.v)
    /\ (last.kind = "unwrap" /\ IsErr(last.arg))
          => last.out.tag = "Panic"
    /\ (last.kind = "unwrap" /\ ~last.lhs.g.derived /\ last.lhs.g.shadow # Null)
          => (last.out.tag = "Val" /\ last.out.x = last.lhs.g.shadow)
    /\ last.kind = "from_tensor"
          => MTensor_unwrap(last.out.m).tag = "Val" /\ MTensor_unwrap(last.out.m).x = last.arg

C7_Witness ==
    /\ last.kind = "unwrap"
    /\ IsErr(last.arg)
    /\ last.out.tag = "Panic" /\ last.out.msg = "unwrap"

\* C8: an MTensor made from a Tensor is in Success state holding that
\* tensor; one made from a Result holds exactly that Result, Ok or Err.
C8_Construction ==
    /\ last.kind = "from_tensor"
          => (last.out.tag = "Ret" /\ last.out.m = [inner |-> [tag |-> "Ok", v |-> last.arg]])
    /\ last.kind = "from_result"
          => (last.out.tag = "Ret" /\ last.out.m = [inner |-> last.arg])

C8_Witness ==
    /\ last.kind = "from_result"
    /\ last.arg.tag = "Err" /\ ~IsWithBacktrace(last.arg.e)
    /\ IsErr(last.out.m)

\* C9: an MTensor operand passed by reference is, after the operator call,
\* in the same state with the same tensor or error as before it, whether
\* the call succeeded, failed in the library, short-circuited or panicked.
C9_OperandsUnchanged ==
    last.kind = "op" =>
        /\ (last.lhs.tag = "MTensor" /\ last.lhs.ref) => slots[last.lhs.slot] = last.lhs.m
        /\ (last.rhs.tag = "MTensor" /\ last.rhs.ref) => slots[last.rhs.slot] = last.rhs.m

C9_Witness ==
    /\ last.kind = "op"
    /\ last.lhs.tag = "MTensor" /\ last.lhs.ref /\ IsErr(last.lhs.m)
    /\ last.out.tag = "Ret" /\ ~last.out.invoked
    /\ slots[last.lhs.slot] = last.lhs.m

\* C10: the assertion of ttry! holds: every Failure-state MTensor an operator
\* is applied to carries an error of the WithBacktrace form, so no sequence
\* of constructions and operator calls reaches the unreachable! branch.
C10_UnreachableNeverReached ==
    /\ last.kind = "op" =>
          /\ Failing(last.lhs) => IsWithBacktrace(last.lhs.m.inner.e)
          /\ Failing(last.rhs) => IsWithBacktrace(last.rhs.m.inner.e)
    /\ ~(last.out.tag = "Panic" /\ last.out.msg = "unreachable")

====
